---- MODULE Spec2Model ----
(***************************************************************************)
(* A model of quincy's configuration loader (src/src/config.rs), of the    *)
(* derivation of the quinn transport configurations from it, and of the    *)
(* socket binder and the message codec of src/src/utils.rs.                *)
(***************************************************************************)
EXTENDS Integers, Sequences, FiniteSets, TLC

----------------------------------------------------------------------------
(* Bounds of the model *)

\* number of directory entries read_dir yields at most
MaxEntries == 3

\* tunnel names, and the table keys an inline tunnel of the base file can have
Names == {"a", "b", "c"}
InlineKeys == {"a", "b"}
\* stands for the fields of a TunnelConfig other than its name
Fields == {1, 2}

----------------------------------------------------------------------------
(* State *)

\* ServerConfig::init
VARIABLES
    pc,              \* position in ServerConfig::init
    tunnel_path,     \* config.tunnel_path: "None", "NotDir" or "Dir"
    inline,          \* the tunnel map as figment.extract() produced it
    tunnels,         \* config.tunnels
    tunnel_configs,  \* the Vec<TunnelConfig> collected from the directory
    entries_read,    \* entries the ReadDir iterator has yielded
    merge_i,         \* index of the next element of the for loop
    warnings,        \* the warn! calls, in order
    result           \* "None" while running, then "Ok", "ConfigError" or "IoError"

loadVars == <<pc, tunnel_path, inline, tunnels, tunnel_configs, entries_read,
              merge_i, warnings, result>>

\* as_quinn_client_config / as_quinn_server_config
VARIABLES
    q_pc,        \* position in the derivation
    q_role,      \* "client" (as_quinn_client_config) or "server"
    q_checks,    \* the build's overflow-checks setting (on in debug builds)
    q_auth,      \* authentication.auth_interval / self.auth_timeout, a u32
    q_mtu,       \* connection.mtu / connection_config.mtu, a u32
    q_files,     \* what load_certificates_from_file gives for each trusted file
    q_key_ok,    \* load_private_key_from_file succeeds
    q_cert_ok,   \* load_certificates_from_file(certificate_file) succeeds
    q_pair_ok,   \* with_single_cert accepts the certificate and key
    q_trusted,   \* the Vec<Certificate> trusted_certificates
    q_store,     \* cert_store (RootCertStore), in order of addition
    q_idle,      \* the max_idle_timeout in milliseconds: Unset or Some(u32)
    q_ub,        \* the MTU discovery upper bound: Unset or Some(u16)
    q_result     \* "None", "Ok", "Err", "PanicMul" or "PanicAdd"

quinnVars == <<q_pc, q_role, q_checks, q_auth, q_mtu, q_files, q_key_ok,
               q_cert_ok, q_pair_ok, q_trusted, q_store, q_idle, q_ub, q_result>>

\* bind_socket
VARIABLES
    b_pc,        \* position in bind_socket
    b_ipv6,      \* addr.is_ipv6()
    b_send_req,  \* send_buffer_size
    b_recv_req,  \* recv_buffer_size
    b_calls,     \* the socket calls made so far, in order
    b_failed,    \* the call that returned an error, or "none"
    b_send_got,  \* socket.send_buffer_size(): Unset or Some(size)
    b_recv_got,  \* socket.recv_buffer_size(): Unset or Some(size)
    b_warnings,  \* the warn! calls, in order
    b_result     \* "None" while running, then "Ok" (the socket) or "Err"

bindVars == <<b_pc, b_ipv6, b_send_req, b_recv_req, b_calls, b_failed,
              b_send_got, b_recv_got, b_warnings, b_result>>

\* encode_message / decode_message
VARIABLES
    c_pc,        \* "encode", "decode" or "done"
    c_msg,       \* the message: a struct of u16 fields, as their sequence
    c_encoded,   \* encode_message's result: Unset (Err) or Some(bytes)
    c_enc,       \* "None", "Ok" or "Err"
    c_decoded,   \* decode_message's result: Unset (Err) or Some(message)
    c_dec        \* "None", "Ok" or "Err"

codecVars == <<c_pc, c_msg, c_encoded, c_enc, c_decoded, c_dec>>

vars == <<loadVars, quinnVars, bindVars, codecVars>>

\* what each operation leaves alone: the state of the other operations
notLoad == <<quinnVars, bindVars, codecVars>>
notQuinn == <<loadVars, bindVars, codecVars>>
notBind == <<loadVars, quinnVars, codecVars>>
notCodec == <<loadVars, quinnVars, bindVars>>

----------------------------------------------------------------------------
(* ServerConfig::init *)

\* struct TunnelConfig: its name and the rest of its fields
TunnelConfig == [name : Names, fields : Fields]

\* HashMap<String, TunnelConfig> of the base file: the key is the TOML table
\* key, the name is a field of the table, and nothing relates the two
InlineMaps == UNION {[K -> TunnelConfig] : K \in SUBSET InlineKeys}

\* what one entry of the directory turns into: an I/O error of the listing
\* (dropped by flatten), a file TunnelConfig::from_path fails on (dropped by
\* filter_map), or a tunnel configuration
DirEntries == {[kind |-> "IoError"], [kind |-> "Unparsable"]}
                \cup {[kind |-> "Tunnel", tunnel |-> t] : t \in TunnelConfig}

EmptyMap == [k \in {} |-> [name |-> "a", fields |-> 1]]

\* a plausible slip: the discovered tunnel overwrites the map entry (last wins)
MergeTunnelLastWins(map, tunnel) ==
    [k \in DOMAIN map \cup {tunnel.name} |->
        IF k = tunnel.name THEN tunnel ELSE map[k]]

\* the body of the for loop: config.tunnels.entry(name), Occupied or Vacant
MergeTunnel(map, tunnel) ==
    IF tunnel.name \in DOMAIN map
    THEN map
    ELSE [k \in DOMAIN map \cup {tunnel.name} |->
            IF k = tunnel.name THEN tunnel ELSE map[k]]

\* the whole for loop over a vector of discovered tunnels
RECURSIVE MergeAll(_, _)
MergeAll(map, configs) ==
    IF configs = <<>> THEN map
    ELSE MergeAll(MergeTunnel(map, Head(configs)), Tail(configs))

LoadIdle ==
    /\ pc = "idle"
    /\ tunnel_path = "None"
    /\ inline = EmptyMap
    /\ tunnels = EmptyMap
    /\ tunnel_configs = <<>>
    /\ entries_read = 0
    /\ merge_i = 1
    /\ warnings = <<>>
    /\ result = "None"

LoadInit ==
    /\ pc = "extract"
    /\ tunnel_path = "None"
    /\ inline = EmptyMap
    /\ tunnels = EmptyMap
    /\ tunnel_configs = <<>>
    /\ entries_read = 0
    /\ merge_i = 1
    /\ warnings = <<>>
    /\ result = "None"

\* figment.extract()? fails: init returns the error
ExtractErr ==
    /\ pc = "extract"
    /\ pc' = "done"
    /\ result' = "ConfigError"
    /\ UNCHANGED <<tunnel_path, inline, tunnels, tunnel_configs, entries_read,
                   merge_i, warnings>>
    /\ UNCHANGED notLoad

\* figment.extract()? yields the base configuration
ExtractOk ==
    /\ pc = "extract"
    /\ \E tp \in {"None", "NotDir", "Dir"}, m \in InlineMaps :
         /\ tunnel_path' = tp
         /\ inline' = m
         /\ tunnels' = m
    /\ pc' = "tunnel_path"
    /\ UNCHANGED <<tunnel_configs, entries_read, merge_i, warnings, result>>
    /\ UNCHANGED notLoad

\* match &config.tunnel_path { None => vec![] }
TunnelPathNone ==
    /\ pc = "tunnel_path"
    /\ tunnel_path = "None"
    /\ pc' = "merge"
    /\ UNCHANGED <<tunnel_path, inline, tunnels, tunnel_configs, entries_read,
                   merge_i, warnings, result>>
    /\ UNCHANGED notLoad

\* is_dir() is false: warn and go on with vec![]
TunnelPathNotDir ==
    /\ pc = "tunnel_path"
    /\ tunnel_path = "NotDir"
    /\ warnings' = Append(warnings, "not_a_directory")
    /\ pc' = "merge"
    /\ UNCHANGED <<tunnel_path, inline, tunnels, tunnel_configs, entries_read,
                   merge_i, result>>
    /\ UNCHANGED notLoad

\* is_dir() is true
TunnelPathIsDir ==
    /\ pc = "tunnel_path"
    /\ tunnel_path = "Dir"
    /\ pc' = "read_dir"
    /\ UNCHANGED <<tunnel_path, inline, tunnels, tunnel_configs, entries_read,
                   merge_i, warnings, result>>
    /\ UNCHANGED notLoad

\* tunnel_path.read_dir()? succeeds
ReadDirOk ==
    /\ pc = "read_dir"
    /\ pc' = "listing"
    /\ UNCHANGED <<tunnel_path, inline, tunnels, tunnel_configs, entries_read,
                   merge_i, warnings, result>>
    /\ UNCHANGED notLoad

\* tunnel_path.read_dir()? fails (the directory cannot be opened for
\* reading): the ? operator returns the error from init
ReadDirErr ==
    /\ pc = "read_dir"
    /\ pc' = "done"
    /\ result' = "IoError"
    /\ UNCHANGED <<tunnel_path, inline, tunnels, tunnel_configs, entries_read,
                   merge_i, warnings>>
    /\ UNCHANGED notLoad

\* one item of the iterator: .flatten().filter_map(..from_path(..).ok())
NextEntry ==
    /\ pc = "listing"
    /\ entries_read < MaxEntries
    /\ \E e \in DirEntries :
         tunnel_configs' = IF e.kind = "Tunnel"
                           THEN Append(tunnel_configs, e.tunnel)
                           ELSE tunnel_configs
    /\ entries_read' = entries_read + 1
    /\ UNCHANGED <<pc, tunnel_path, inline, tunnels, merge_i, warnings, result>>
    /\ UNCHANGED notLoad

\* the iterator is exhausted: .collect()
Collect ==
    /\ pc = "listing"
    /\ pc' = "merge"
    /\ UNCHANGED <<tunnel_path, inline, tunnels, tunnel_configs, entries_read,
                   merge_i, warnings, result>>
    /\ UNCHANGED notLoad

\* one turn of `for tunnel in tunnel_configs`
MergeStep ==
    /\ pc = "merge"
    /\ merge_i <= Len(tunnel_configs)
    /\ LET tunnel == tunnel_configs[merge_i] IN
         /\ tunnels' = MergeTunnel(tunnels, tunnel)
         /\ warnings' = IF tunnel.name \in DOMAIN tunnels
                        THEN Append(warnings, tunnel.name)
                        ELSE warnings
    /\ merge_i' = merge_i + 1
    /\ UNCHANGED <<pc, tunnel_path, inline, tunnel_configs, entries_read, result>>
    /\ UNCHANGED notLoad

\* Ok(config)
Return ==
    /\ pc = "merge"
    /\ merge_i > Len(tunnel_configs)
    /\ pc' = "done"
    /\ result' = "Ok"
    /\ UNCHANGED <<tunnel_path, inline, tunnels, tunnel_configs, entries_read,
                   merge_i, warnings>>
    /\ UNCHANGED notLoad

LoadNext ==
    \/ ExtractErr
    \/ ExtractOk
    \/ TunnelPathNone
    \/ TunnelPathNotDir
    \/ TunnelPathIsDir
    \/ ReadDirOk
    \/ ReadDirErr
    \/ NextEntry
    \/ Collect
    \/ MergeStep
    \/ Return

----------------------------------------------------------------------------
(* as_quinn_client_config / as_quinn_server_config *)

\* number of files in authentication.trusted_certificates at most
MaxTrusted == 2
\* number of certificates in one file at most
MaxCertsPerFile == 2

\* crate::constants::QUIC_MTU_OVERHEAD (u16)
QUIC_MTU_OVERHEAD == 42

\* one 16-bit limb; a u32 is the record [hi, lo] of two limbs, hi * 2^16 + lo
Limb == 2^16

U32(hi, lo) == [hi |-> hi, lo |-> lo]

\* Option: a value that is absent or present
Unset == <<>>
Some(x) == <<x>>

\* a certificate as load_certificates_from_file returns it; "bad" is one
\* RootCertStore::add rejects
Certs == {"c1", "c2", "bad"}

SeqsUpTo(S, n) == UNION {[1..k -> S] : k \in 0..n}

\* the outcome of load_certificates_from_file for one path
FileOutcomes ==
    {[ok |-> FALSE, certs |-> <<>>]}
        \cup {[ok |-> TRUE, certs |-> c] : c \in SeqsUpTo(Certs, MaxCertsPerFile)}

\* auth_interval / auth_timeout values: 1, the default 120, the largest
\* value whose product with 2000 fits a u32 (2147483), the next one,
\* 2^31 and u32::MAX
AuthValues ==
    {U32(0, 1), U32(0, 120), U32(32, 50331), U32(32, 50332),
     U32(32768, 0), U32(65535, 65535)}

\* mtu values: 1400, the largest whose sum with the overhead fits a u16, the
\* next one, u16::MAX, 2^16 and 2^16 + 1400
MtuValues ==
    {U32(0, 1400), U32(0, Limb - 1 - QUIC_MTU_OVERHEAD),
     U32(0, Limb - QUIC_MTU_OVERHEAD), U32(0, Limb - 1), U32(1, 0), U32(1, 1400)}

\* u32 * k for a small k: the wrapped product and whether it overflowed
MulU32(x, k) ==
    LET lo == x.lo * k
        hi == x.hi * k + (lo \div Limb)
    IN  [overflow |-> hi >= Limb, value |-> U32(hi % Limb, lo % Limb)]

\* `x as u16` of a u32
AsU16(x) == x.lo

\* u16 + u16: the wrapped sum and whether it overflowed
AddU16(a, b) == [overflow |-> a + b >= Limb, value |-> (a + b) % Limb]

\* .iter().filter_map(load_certificates_from_file ..).flatten().collect()
RECURSIVE LoadTrusted(_)
LoadTrusted(files) ==
    IF files = <<>> THEN <<>>
    ELSE (IF Head(files).ok THEN Head(files).certs ELSE <<>>)
            \o LoadTrusted(Tail(files))

QuinnIdle ==
    /\ q_pc = "idle"
    /\ q_role = "client"
    /\ q_checks = FALSE
    /\ q_auth = U32(0, 120)
    /\ q_mtu = U32(0, 1400)
    /\ q_files = <<>>
    /\ q_key_ok = TRUE
    /\ q_cert_ok = TRUE
    /\ q_pair_ok = TRUE
    /\ q_trusted = <<>>
    /\ q_store = <<>>
    /\ q_idle = Unset
    /\ q_ub = Unset
    /\ q_result = "None"

\* a configuration and an environment (the files the paths name, the build)
QuinnInit ==
    /\ q_pc = "start"
    /\ q_checks \in BOOLEAN
    /\ q_auth \in AuthValues
    /\ q_mtu \in MtuValues
    /\ \/ /\ q_role = "client"
          /\ q_files \in SeqsUpTo(FileOutcomes, MaxTrusted)
          /\ q_key_ok = TRUE /\ q_cert_ok = TRUE /\ q_pair_ok = TRUE
       \/ /\ q_role = "server"
          /\ q_files = <<>>
          /\ q_key_ok \in BOOLEAN /\ q_cert_ok \in BOOLEAN /\ q_pair_ok \in BOOLEAN
    /\ q_trusted = <<>>
    /\ q_store = <<>>
    /\ q_idle = Unset
    /\ q_ub = Unset
    /\ q_result = "None"

QuinnInputs == <<q_role, q_checks, q_auth, q_mtu, q_files, q_key_ok, q_cert_ok,
                 q_pair_ok>>

\* client: collect the certificates of the files that load
LoadTrustedCertificates ==
    /\ q_pc = "start"
    /\ q_role = "client"
    /\ q_trusted' = LoadTrusted(q_files)
    /\ q_pc' = "add"
    /\ UNCHANGED <<QuinnInputs, q_store, q_idle, q_ub, q_result>>
    /\ UNCHANGED notQuinn

\* client: one turn of `for certificate in trusted_certificates`,
\* cert_store.add(&certificate)?
AddCertificate ==
    /\ q_pc = "add"
    /\ Len(q_store) < Len(q_trusted)
    /\ LET certificate == q_trusted[Len(q_store) + 1] IN
         IF certificate = "bad"
         THEN /\ q_result' = "Err"
              /\ q_pc' = "done"
              /\ UNCHANGED q_store
         ELSE /\ q_store' = Append(q_store, certificate)
              /\ UNCHANGED <<q_pc, q_result>>
    /\ UNCHANGED <<QuinnInputs, q_trusted, q_idle, q_ub>>
    /\ UNCHANGED notQuinn

\* client: the rustls ClientConfig is built from the store (the builder's
\* ? is on the pinned cipher suites and versions, which are constants)
BuildClientTls ==
    /\ q_pc = "add"
    /\ Len(q_store) = Len(q_trusted)
    /\ q_pc' = "timeout"
    /\ UNCHANGED <<QuinnInputs, q_trusted, q_store, q_idle, q_ub, q_result>>
    /\ UNCHANGED notQuinn

\* server: load_private_key_from_file(..)?
LoadPrivateKey ==
    /\ q_pc = "start"
    /\ q_role = "server"
    /\ IF q_key_ok
       THEN q_pc' = "certs" /\ UNCHANGED q_result
       ELSE q_pc' = "done" /\ q_result' = "Err"
    /\ UNCHANGED <<QuinnInputs, q_trusted, q_store, q_idle, q_ub>>
    /\ UNCHANGED notQuinn

\* server: load_certificates_from_file(..)?
LoadCertificates ==
    /\ q_pc = "certs"
    /\ IF q_cert_ok
       THEN q_pc' = "tls" /\ UNCHANGED q_result
       ELSE q_pc' = "done" /\ q_result' = "Err"
    /\ UNCHANGED <<QuinnInputs, q_trusted, q_store, q_idle, q_ub>>
    /\ UNCHANGED notQuinn

\* server: the rustls ServerConfig, .with_single_cert(certs, key)?
BuildServerTls ==
    /\ q_pc = "tls"
    /\ IF q_pair_ok
       THEN q_pc' = "timeout" /\ UNCHANGED q_result
       ELSE q_pc' = "done" /\ q_result' = "Err"
    /\ UNCHANGED <<QuinnInputs, q_trusted, q_store, q_idle, q_ub>>
    /\ UNCHANGED notQuinn

\* the value of `auth * 2 * 1_000` in u32 arithmetic: absent when the build
\* checks overflow and a multiplication overflows (the thread panics)
IdleTimeoutMillis(auth, checks) ==
    LET twice == MulU32(auth, 2)
        millis == MulU32(twice.value, 1000)
    IN  IF checks /\ (twice.overflow \/ millis.overflow)
        THEN Unset
        ELSE Some(millis.value)

\* the value of `mtu as u16 + QUIC_MTU_OVERHEAD`: absent when the build
\* checks overflow and the addition overflows
MtuUpperBound(mtu, checks) ==
    LET sum == AddU16(AsU16(mtu), QUIC_MTU_OVERHEAD)
    IN  IF checks /\ sum.overflow THEN Unset ELSE Some(sum.value)

\* transport_config.max_idle_timeout(Some(VarInt::from_u32(..).into()))
SetIdleTimeout ==
    /\ q_pc = "timeout"
    /\ LET millis == IdleTimeoutMillis(q_auth, q_checks) IN
         IF millis = Unset
         THEN /\ q_result' = "PanicMul"
              /\ q_pc' = "done"
              /\ UNCHANGED q_idle
         ELSE /\ q_idle' = millis
              /\ q_pc' = "mtu"
              /\ UNCHANGED q_result
    /\ UNCHANGED <<QuinnInputs, q_trusted, q_store, q_ub>>
    /\ UNCHANGED notQuinn

\* mtu_config.upper_bound(mtu as u16 + QUIC_MTU_OVERHEAD)
SetMtuUpperBound ==
    /\ q_pc = "mtu"
    /\ LET bound == MtuUpperBound(q_mtu, q_checks) IN
         IF bound = Unset
         THEN /\ q_result' = "PanicAdd"
              /\ q_pc' = "done"
              /\ UNCHANGED q_ub
         ELSE /\ q_ub' = bound
              /\ q_pc' = "return"
              /\ UNCHANGED q_result
    /\ UNCHANGED <<QuinnInputs, q_trusted, q_store, q_idle>>
    /\ UNCHANGED notQuinn

\* Ok(quinn_config)
ReturnQuinnConfig ==
    /\ q_pc = "return"
    /\ q_pc' = "done"
    /\ q_result' = "Ok"
    /\ UNCHANGED <<QuinnInputs, q_trusted, q_store, q_idle, q_ub>>
    /\ UNCHANGED notQuinn

QuinnNext ==
    \/ LoadTrustedCertificates
    \/ AddCertificate
    \/ BuildClientTls
    \/ LoadPrivateKey
    \/ LoadCertificates
    \/ BuildServerTls
    \/ SetIdleTimeout
    \/ SetMtuUpperBound
    \/ ReturnQuinnConfig

----------------------------------------------------------------------------
(* bind_socket *)

\* buffer sizes a caller asks for: the default 2 MiB, and 8 MiB
RequestedSizes == {2097152, 8388608}
\* buffer sizes the system reports: a small system cap, 2 MiB, 8 MiB, 16 MiB
GrantedSizes == {212992, 2097152, 8388608, 16777216}

BindIdle ==
    /\ b_pc = "idle"
    /\ b_ipv6 = FALSE
    /\ b_send_req = 2097152
    /\ b_recv_req = 2097152
    /\ b_calls = <<>>
    /\ b_failed = "none"
    /\ b_send_got = Unset
    /\ b_recv_got = Unset
    /\ b_warnings = <<>>
    /\ b_result = "None"

BindInit ==
    /\ b_pc = "create"
    /\ b_ipv6 \in BOOLEAN
    /\ b_send_req \in RequestedSizes
    /\ b_recv_req \in RequestedSizes
    /\ b_calls = <<>>
    /\ b_failed = "none"
    /\ b_send_got = Unset
    /\ b_recv_got = Unset
    /\ b_warnings = <<>>
    /\ b_result = "None"

BindInputs == <<b_ipv6, b_send_req, b_recv_req>>

\* a call followed by .context(..)?: on success go on at `next`, on an
\* error return it
Call(call, next) ==
    /\ b_calls' = Append(b_calls, call)
    /\ \E ok \in BOOLEAN :
         IF ok
         THEN /\ b_pc' = next
              /\ UNCHANGED <<b_failed, b_result>>
         ELSE /\ b_pc' = "done"
              /\ b_failed' = call
              /\ b_result' = "Err"
    /\ UNCHANGED <<BindInputs, b_send_got, b_recv_got, b_warnings>>
    /\ UNCHANGED notBind

\* a plausible slip: a granted size below the requested one is an error
AfterQueryShortfallFails(granted, requested) ==
    [fail |-> granted < requested, warn |-> granted < requested]

\* `if buf_size < requested { warn!(..) }`: what a granted size leads to
AfterQuery(granted, requested) ==
    [fail |-> FALSE, warn |-> granted < requested]

\* Socket::new(..).context("create socket")?
CreateSocket ==
    /\ b_pc = "create"
    /\ Call("create", IF b_ipv6 THEN "only_v6" ELSE "bind")

\* if addr.is_ipv6() { socket.set_only_v6(false).context("set_only_v6")? }
SetOnlyV6 ==
    /\ b_pc = "only_v6"
    /\ Call("set_only_v6", "bind")

\* socket.bind(..).context("binding endpoint")?
BindEndpoint ==
    /\ b_pc = "bind"
    /\ Call("bind", "set_send")

\* socket.set_send_buffer_size(..).context("send buffer size")?
SetSendBufferSize ==
    /\ b_pc = "set_send"
    /\ Call("set_send_buffer_size", "set_recv")

\* socket.set_recv_buffer_size(..).context("recv buffer size")?
SetRecvBufferSize ==
    /\ b_pc = "set_recv"
    /\ Call("set_recv_buffer_size", "get_send")

\* socket.send_buffer_size().context(..)? and the comparison after it
QuerySendBufferSize ==
    /\ b_pc = "get_send"
    /\ b_calls' = Append(b_calls, "send_buffer_size")
    /\ \/ /\ b_pc' = "done"
          /\ b_failed' = "send_buffer_size"
          /\ b_result' = "Err"
          /\ UNCHANGED <<b_send_got, b_warnings>>
       \/ \E buf_size \in GrantedSizes :
            LET after == AfterQuery(buf_size, b_send_req) IN
              /\ b_send_got' = Some(buf_size)
              /\ b_warnings' = IF after.warn THEN Append(b_warnings, "send")
                               ELSE b_warnings
              /\ b_pc' = IF after.fail THEN "done" ELSE "get_recv"
              /\ b_result' = IF after.fail THEN "Err" ELSE b_result
              /\ UNCHANGED b_failed
    /\ UNCHANGED <<BindInputs, b_recv_got>>
    /\ UNCHANGED notBind

\* socket.recv_buffer_size().context(..)? and the comparison after it
QueryRecvBufferSize ==
    /\ b_pc = "get_recv"
    /\ b_calls' = Append(b_calls, "recv_buffer_size")
    /\ \/ /\ b_pc' = "done"
          /\ b_failed' = "recv_buffer_size"
          /\ b_result' = "Err"
          /\ UNCHANGED <<b_recv_got, b_warnings>>
       \/ \E buf_size \in GrantedSizes :
            LET after == AfterQuery(buf_size, b_recv_req) IN
              /\ b_recv_got' = Some(buf_size)
              /\ b_warnings' = IF after.warn THEN Append(b_warnings, "recv")
                               ELSE b_warnings
              /\ b_pc' = IF after.fail THEN "done" ELSE "return"
              /\ b_result' = IF after.fail THEN "Err" ELSE b_result
              /\ UNCHANGED b_failed
    /\ UNCHANGED <<BindInputs, b_send_got>>
    /\ UNCHANGED notBind

\* Ok(socket.into())
ReturnSocket ==
    /\ b_pc = "return"
    /\ b_pc' = "done"
    /\ b_result' = "Ok"
    /\ UNCHANGED <<BindInputs, b_calls, b_failed, b_send_got, b_recv_got,
                   b_warnings>>
    /\ UNCHANGED notBind

BindNext ==
    \/ CreateSocket
    \/ SetOnlyV6
    \/ BindEndpoint
    \/ SetSendBufferSize
    \/ SetRecvBufferSize
    \/ QuerySendBufferSize
    \/ QueryRecvBufferSize
    \/ ReturnSocket

----------------------------------------------------------------------------
(* encode_message / decode_message *)

\* number of fields of a short message at most
MaxFields == 3
\* crate::constants::BINCODE_BUFFER_SIZE (usize)
BINCODE_BUFFER_SIZE == 128

\* number of fields of the messages around the buffer capacity
LongFields == BINCODE_BUFFER_SIZE \div 2

FieldValues == {0, 1, 258, 65535}

\* the messages: every short one, and long ones of 128, 130 and 132 bytes
Messages ==
    SeqsUpTo(FieldValues, MaxFields)
        \cup {[i \in 1..n |-> 258] : n \in LongFields..(LongFields + 2)}

\* the bytes of a u16 under the fixed-width little-endian encoding
EncodeU16(v) == <<v % 256, v \div 256>>

\* a message's serialized form: its fields one after the other
RECURSIVE Serialize(_)
Serialize(msg) ==
    IF msg = <<>> THEN <<>>
    ELSE EncodeU16(Head(msg)) \o Serialize(Tail(msg))

\* BytesMut::with_capacity(n): room for n bytes, and a length of zero
WithCapacity(n) == [capacity |-> n, bytes |-> <<>>]

\* the &mut [u8] a &mut BytesMut dereferences to: its len() bytes
AsMutSlice(buf) == buf.bytes

\* bincode::encode_into_slice: each field is written whole into what is left
\* of the slice; a field that does not fit ends the encoding with an error.
\* The slice written so far and whether the encoding succeeded.
RECURSIVE EncodeIntoSlice(_, _, _)
EncodeIntoSlice(msg, slice, at) ==
    IF msg = <<>> THEN [ok |-> TRUE, slice |-> slice]
    ELSE IF at + 2 > Len(slice) THEN [ok |-> FALSE, slice |-> slice]
    ELSE EncodeIntoSlice(Tail(msg),
            [i \in 1..Len(slice) |->
                IF i = at + 1 THEN EncodeU16(Head(msg))[1]
                ELSE IF i = at + 2 THEN EncodeU16(Head(msg))[2]
                ELSE slice[i]],
            at + 2)

\* encode_message: Unset for Err, Some(bytes) for Ok(message_buf.into())
encode_message(message) ==
    LET message_buf == WithCapacity(BINCODE_BUFFER_SIZE)
        encoded == EncodeIntoSlice(message, AsMutSlice(message_buf), 0)
    IN  IF encoded.ok THEN Some(encoded.slice) ELSE Unset

\* bincode::decode_from_slice for a struct of n u16 fields: the fields are
\* read from the front of the slice; Unset when the slice ends too early
RECURSIVE DecodeFromSlice(_, _)
DecodeFromSlice(data, n) ==
    IF n = 0 THEN Some(<<>>)
    ELSE IF Len(data) < 2 THEN Unset
    ELSE LET rest == DecodeFromSlice(SubSeq(data, 3, Len(data)), n - 1) IN
           IF rest = Unset THEN Unset
           ELSE Some(<<data[1] + 256 * data[2]>> \o rest[1])

\* decode_message for the message type of n fields: the value, the count of
\* bytes consumed being dropped
decode_message(data, n) == DecodeFromSlice(data, n)

CodecIdle ==
    /\ c_pc = "idle"
    /\ c_msg = <<>>
    /\ c_encoded = Unset
    /\ c_enc = "None"
    /\ c_decoded = Unset
    /\ c_dec = "None"

CodecInit ==
    /\ c_pc = "encode"
    /\ c_msg \in Messages
    /\ c_encoded = Unset
    /\ c_enc = "None"
    /\ c_decoded = Unset
    /\ c_dec = "None"

\* the caller encodes the message
EncodeMessage ==
    /\ c_pc = "encode"
    /\ c_encoded' = encode_message(c_msg)
    /\ c_enc' = IF c_encoded' = Unset THEN "Err" ELSE "Ok"
    /\ c_pc' = IF c_encoded' = Unset THEN "done" ELSE "decode"
    /\ UNCHANGED <<c_msg, c_decoded, c_dec>>
    /\ UNCHANGED notCodec

\* the peer decodes the bytes it was sent as the same message type
DecodeMessage ==
    /\ c_pc = "decode"
    /\ c_decoded' = decode_message(c_encoded[1], Len(c_msg))
    /\ c_dec' = IF c_decoded' = Unset THEN "Err" ELSE "Ok"
    /\ c_pc' = "done"
    /\ UNCHANGED <<c_msg, c_encoded, c_enc>>
    /\ UNCHANGED notCodec

CodecNext ==
    \/ EncodeMessage
    \/ DecodeMessage

----------------------------------------------------------------------------
(* Specifications, one per operation *)

\* ServerConfig::init
Init == LoadInit /\ QuinnIdle /\ BindIdle /\ CodecIdle
Next == LoadNext
Spec == Init /\ [][Next]_vars

\* as_quinn_client_config and as_quinn_server_config
InitQuinn == LoadIdle /\ QuinnInit /\ BindIdle /\ CodecIdle
SpecQuinn == InitQuinn /\ [][QuinnNext]_vars

\* bind_socket
InitBind == LoadIdle /\ QuinnIdle /\ BindInit /\ CodecIdle
SpecBind == InitBind /\ [][BindNext]_vars

\* encode_message and decode_message
InitCodec == LoadIdle /\ QuinnIdle /\ BindIdle /\ CodecInit
SpecCodec == InitCodec /\ [][CodecNext]_vars

----------------------------------------------------------------------------
(* ServerConfig::init -- properties *)

Loaded == pc = "done" /\ result = "Ok"

DiscoveredNames == {tunnel_configs[i].name : i \in 1..Len(tunnel_configs)}

\* the first element of the discovered vector that carries the name n
FirstNamed(n) ==
    tunnel_configs[CHOOSE i \in 1..Len(tunnel_configs) :
        /\ tunnel_configs[i].name = n
        /\ \A j \in 1..(i - 1) : tunnel_configs[j].name # n]

Permute(configs, p) == [i \in 1..Len(configs) |-> configs[p[i]]]

DistinctNames(configs) ==
    \A i, j \in 1..Len(configs) : i # j => configs[i].name # configs[j].name

\* C1: every turn of the merge loop keeps the map as it is when the
\* discovered tunnel's name is already a key (inline or inserted earlier in
\* the pass), and otherwise adds exactly that tunnel under its name, leaving
\* every existing entry unchanged.
C1_FirstRegistrationWins ==
    [][(pc = "merge" /\ merge_i' = merge_i + 1) =>
         LET tunnel == tunnel_configs[merge_i] IN
           IF tunnel.name \in DOMAIN tunnels
           THEN tunnels' = tunnels
           ELSE /\ DOMAIN tunnels' = DOMAIN tunnels \cup {tunnel.name}
                /\ tunnels'[tunnel.name] = tunnel
                /\ \A k \in DOMAIN tunnels : tunnels'[k] = tunnels[k]]_vars

\* a load has finished in which a discovered tunnel collided with an inline
\* one of different field values, one collided with an earlier discovered
\* one, and one was inserted
C1_Witness ==
    /\ Loaded
    /\ \E i \in 1..Len(tunnel_configs) :
         /\ tunnel_configs[i].name \in DOMAIN inline
         /\ tunnel_configs[i] # inline[tunnel_configs[i].name]
    /\ \E i, j \in 1..Len(tunnel_configs) :
         /\ i < j
         /\ tunnel_configs[i].name = tunnel_configs[j].name
         /\ tunnel_configs[i] # tunnel_configs[j]
         /\ tunnel_configs[i].name \notin DOMAIN inline
         /\ tunnels[tunnel_configs[i].name] = tunnel_configs[i]

\* C2: in every returned ServerConfig no two entries of the tunnel map carry
\* the same name field.
C2_NamesUnique ==
    Loaded => \A k1, k2 \in DOMAIN tunnels :
                 k1 # k2 => tunnels[k1].name # tunnels[k2].name

\* C7: the load fails only when the base resolution fails; no failure of the
\* directory discovery makes it fail.
C7_FailsOnlyOnBase ==
    pc = "done" => result \in {"Ok", "ConfigError"}

\* C10: the merged map does not depend on the listing order when the
\* discovered names are pairwise distinct; its keys are the inline keys and
\* the discovered names; inline entries take precedence; a key whose entry
\* differs between two orderings is a name two discovered tunnels share and
\* no inline entry has, and the entry kept is the one listed first.
C10_OrderIndependent ==
    Loaded =>
      /\ DOMAIN tunnels = DOMAIN inline \cup DiscoveredNames
      /\ \A k \in DOMAIN inline : tunnels[k] = inline[k]
      /\ \A n \in DiscoveredNames \ DOMAIN inline : tunnels[n] = FirstNamed(n)
      /\ \A p \in Permutations(1..Len(tunnel_configs)) :
           LET other == MergeAll(inline, Permute(tunnel_configs, p)) IN
             /\ DOMAIN other = DOMAIN tunnels
             /\ DistinctNames(tunnel_configs) => other = tunnels
             /\ \A k \in DOMAIN tunnels :
                  other[k] # tunnels[k] =>
                    /\ k \notin DOMAIN inline
                    /\ \E i, j \in 1..Len(tunnel_configs) :
                         /\ i # j
                         /\ tunnel_configs[i].name = k
                         /\ tunnel_configs[j].name = k

\* a load with an inline tunnel and three discovered tunnels of pairwise
\* distinct names, one of them colliding with the inline one
C10_Witness ==
    /\ Loaded
    /\ Len(tunnel_configs) >= 3
    /\ DistinctNames(tunnel_configs)
    /\ \E i \in 1..Len(tunnel_configs) :
         /\ tunnel_configs[i].name \in DOMAIN inline
         /\ tunnel_configs[i] # inline[tunnel_configs[i].name]

----------------------------------------------------------------------------
(* as_quinn_client_config / as_quinn_server_config -- properties *)

\* mtu + k as an integer of any size, in limbs (hi is not reduced)
ExactAdd(x, k) == [hi |-> x.hi + ((x.lo + k) \div Limb), lo |-> (x.lo + k) % Limb]

\* auth * k as an integer of any size, in limbs (hi is not reduced)
ExactMul(x, k) == [hi |-> x.hi * k + ((x.lo * k) \div Limb), lo |-> (x.lo * k) % Limb]

\* C3: for every mtu M the MTU discovery upper bound both derivations set is
\* M + QUIC_MTU_OVERHEAD exactly, as a u16: M is not truncated and the sum
\* does not overflow.
C3_MtuUpperBoundExact ==
    /\ q_result # "PanicAdd"
    /\ q_ub # Unset => U32(0, q_ub[1]) = ExactAdd(q_mtu, QUIC_MTU_OVERHEAD)

\* C4: for every auth_interval / auth_timeout T the idle timeout both
\* derivations set is 2000 * T milliseconds exactly: the u32 multiplication
\* does not overflow.
C4_IdleTimeoutExact ==
    /\ q_result # "PanicMul"
    /\ q_idle # Unset => q_idle[1] = ExactMul(q_auth, 2000)

\* C8: the client derivation never fails on its trusted certificates: the
\* trust store is the certificates of the files that loaded, in order, and
\* a configuration is returned; the server derivation fails when the key or
\* the certificate fails to load.
C8_TrustStoreNeverFatal ==
    /\ q_role = "client" => q_result # "Err"
    /\ (q_role = "client" /\ q_pc \in {"timeout", "mtu", "return"})
          => q_store = LoadTrusted(q_files)
    /\ (q_role = "server" /\ q_pc = "done" /\ ~(q_key_ok /\ q_cert_ok))
          => q_result = "Err"

----------------------------------------------------------------------------
(* bind_socket -- properties *)

\* the calls bind_socket makes when none fails
CallOrder(ipv6) ==
    <<"create">> \o (IF ipv6 THEN <<"set_only_v6">> ELSE <<>>)
        \o <<"bind", "set_send_buffer_size", "set_recv_buffer_size",
             "send_buffer_size", "recv_buffer_size">>

IsPrefix(p, q) == Len(p) <= Len(q) /\ SubSeq(q, 1, Len(p)) = p

\* the warnings the granted sizes call for
Shortfalls ==
    (IF b_send_got # Unset /\ b_send_got[1] < b_send_req THEN <<"send">> ELSE <<>>)
        \o (IF b_recv_got # Unset /\ b_recv_got[1] < b_recv_req THEN <<"recv">> ELSE <<>>)

\* C9 as stated: bind_socket fails only when the creation of the socket, the
\* binding or a query of a granted size fails.
C9_FailsOnlyOnCreateBindQuery ==
    b_result = "Err" =>
        b_failed \in {"create", "bind", "send_buffer_size", "recv_buffer_size"}

\* C9 as amended: the calls are made in the order create, set_only_v6 (IPv6
\* only), bind, set send size, set recv size, query send size, query recv
\* size; bind_socket fails exactly when one of these calls fails, after that
\* call; a granted size below the requested one gives a warning and nothing
\* else, and the socket is returned.
C9_BindOrderAndFailures ==
    /\ IsPrefix(b_calls, CallOrder(b_ipv6))
    /\ b_warnings = Shortfalls
    /\ b_result = "Err" <=> b_failed # "none"
    /\ b_failed # "none" => b_failed = b_calls[Len(b_calls)]
    /\ (b_pc = "done" /\ b_failed = "none") =>
          /\ b_result = "Ok"
          /\ b_calls = CallOrder(b_ipv6)

\* the 8 MiB send buffer asked for was granted as 2 MiB, on an IPv6
\* address, and the socket was returned with the one warning
C9_Witness ==
    /\ b_pc = "done"
    /\ b_result = "Ok"
    /\ b_ipv6
    /\ b_send_req = 8388608
    /\ b_send_got = Some(2097152)
    /\ b_warnings = <<"send">>

----------------------------------------------------------------------------
(* encode_message / decode_message -- properties *)

Fits(msg) == Len(Serialize(msg)) <= BINCODE_BUFFER_SIZE

\* C5: a message whose serialized form fits BINCODE_BUFFER_SIZE is encoded
\* successfully, to exactly its serialized form, and decoding those bytes
\* gives the message back.
C5_RoundTrip ==
    Fits(c_msg) =>
        /\ c_pc # "encode" => c_encoded = Some(Serialize(c_msg))
        /\ c_pc = "done" => c_decoded = Some(c_msg)

\* C6: encode_message fails if and only if the serialized size exceeds
\* BINCODE_BUFFER_SIZE, and a failure returns the error alone.
C6_FailsIffTooLarge ==
    c_pc # "encode" =>
        /\ c_enc = "Err" <=> ~Fits(c_msg)
        /\ c_enc = "Err" => c_encoded = Unset

====
